---- MODULE Spec2Model ----
(***************************************************************************)
(* Model of the econolab dashboard (src/main.py): the three chart          *)
(* transforms (time series, parametric, multi-file comparison) and the two *)
(* Flask routes that call them ("/" and "/compare").                       *)
(*                                                                         *)
(* A CSV file is modelled by what pandas makes of it: its header (the      *)
(* ordered, de-duplicated column names), its number of data rows, and the  *)
(* values of its time column.  The cell of any other column is the symbol  *)
(* <<column, row>>: no transform computes with cell values, they are only  *)
(* carried into the chart.  Python's None is the record None, a raised     *)
(* exception is the record Raise.                                          *)
(***************************************************************************)
EXTENDS Integers, Sequences, FiniteSets, TLC

VARIABLES
    dirExists,   \* whether the folder CSV_FOLDER exists
    files,       \* file name -> content of CSV_FOLDER/<name> (Missing if absent)
    pc,          \* "idle": no request in progress; "responded": a response is out
    request,     \* the request being answered
    response,    \* the response of the route handler
    io,          \* file-system calls made by the handler, in order
    calls,       \* transform functions invoked by the handler, in order
    csv,         \* the file handed to a single transform call
    ts,          \* locals and return value of the last create_time_series_plot call
    param        \* return value of the last create_parametric_plot call

vars == <<dirExists, files, pc, request, response, io, calls, csv, ts, param>>

serverVars == <<dirExists, files, pc, request, response, io, calls>>
transformVars == <<csv, ts, param>>

(***************************************************************************)
(* Bounds of the model.                                                    *)
(***************************************************************************)
MaxRows == 2     \* data rows of a table: 1..MaxRows
MaxTime == 2     \* values of a time cell: 1..MaxTime
MaxSel == 6      \* length of the `files` list of a /compare request

(***************************************************************************)
(* Configuration constants of the program.                                 *)
(***************************************************************************)
COLUMNS_TO_IGNORE ==
    {"X_center", "X_cycle_time", "X_continuous_level", "X_n_steps", "X_phase",
     "X_step_duration", "X_step_index", "X_step_progress", "X_triangle",
     "X_within_step"}

visible_by_default ==
    {"profit_share", "utilization_rate", "consumption_rate", "investment_rate",
     "H_stock"}

colors == <<"#1f77b4", "#ff7f0e", "#2ca02c", "#d62728", "#9467bd">>

(***************************************************************************)
(* Python values.                                                          *)
(***************************************************************************)
\* Every value carries its kind: None, a raised exception, a local that was
\* never assigned, a data frame, a figure, an HTML or JSON string.
None == [kind |-> "None"]
Raise == [kind |-> "exception"]
Unset == [kind |-> "unset"]

Range(s) == {s[k] : k \in 1..Len(s)}

\* Python truthiness of a transform's return value: None is falsy, a non-empty
\* HTML or JSON string is truthy.
Truthy(v) == v.kind # "None"

IsNone(v) == v.kind = "None"
IsRaise(v) == v.kind = "exception"

(***************************************************************************)
(* File contents and pandas.                                               *)
(***************************************************************************)
\* Missing: no such path.  Unreadable: the path exists but pd.read_csv raises
\* on it (not a CSV, a directory, or a file removed between the existence
\* check and the read).
Missing == [kind |-> "missing"]
Unreadable == [kind |-> "unreadable"]

\* The names a file of CSV_FOLDER, or an entry of a request, can have, in the
\* ascending order sorted() puts them in.
NameOrder == <<"a.csv", "b.csv", "notes.txt">>

FileNames == {"a.csv", "b.csv", "notes.txt"}

\* filename.endswith('.csv')
endswith_csv(filename) == filename \in {"a.csv", "b.csv"}

\* The column names the model's tables draw their headers from, in header order.
ColumnNames ==
    <<"time", "profit_share", "utilization_rate", "wage", "X_phase", "value">>

Headers ==
    {SelectSeq(ColumnNames, LAMBDA c : c \in S) : S \in SUBSET Range(ColumnNames)}

TablesWith(h, n) ==
    {[kind |-> "csv", columns |-> h, nrows |-> n, time |-> t] :
        t \in IF "time" \in Range(h) THEN [1..n -> 1..MaxTime] ELSE {<<>>}}

Tables == UNION {TablesWith(h, n) : h \in Headers, n \in 1..MaxRows}

\* pd.read_csv: a data frame, or an exception for a path that is not there or
\* a file that does not parse.
read_csv(content) ==
    IF content.kind = "csv" THEN content ELSE Raise

Cell(df, r, c) == IF c = "time" THEN df.time[r] ELSE <<c, r>>

RECURSIVE Unique(_)
Unique(s) ==
    IF s = <<>> THEN <<>>
    ELSE LET rest == Unique(SubSeq(s, 1, Len(s) - 1))
             last == s[Len(s)]
         IN IF last \in Range(rest) THEN rest ELSE Append(rest, last)

\* DataFrame.melt(id_vars=['time'], value_vars=..., var_name='variable',
\* value_name='value'): one long row per (value column, data row), value
\* columns outermost.  pandas raises KeyError for an id column the frame does
\* not have and ValueError when value_name is already a column.
melt_dedup(df, value_vars) ==
    LET times == Unique([r \in 1..df.nrows |-> df.time[r]])
        n == Len(times)
    IN [kind |-> "frame",
        rows |-> [p \in 1..(n * Len(value_vars)) |->
                    LET k == ((p - 1) \div n) + 1
                        r == ((p - 1) % n) + 1
                    IN [time |-> times[r],
                        variable |-> value_vars[k],
                        value |-> Cell(df, r, value_vars[k])]]]

melt(df, value_vars) ==
    IF "time" \notin Range(df.columns) \/ "value" \in Range(df.columns)
    THEN Raise
    ELSE [kind |-> "frame",
          rows |-> [p \in 1..(df.nrows * Len(value_vars)) |->
                      LET k == ((p - 1) \div df.nrows) + 1
                          r == ((p - 1) % df.nrows) + 1
                      IN [time |-> Cell(df, r, "time"),
                          variable |-> value_vars[k],
                          value |-> Cell(df, r, value_vars[k])]]]

(***************************************************************************)
(* plotly.                                                                 *)
(***************************************************************************)
\* px.line(df_long, x='time', y='value', color='variable'): one named line per
\* distinct value of 'variable', in order of first appearance, holding that
\* variable's rows in frame order; every trace is shown and has a legend entry.
px_line(df_long, title) ==
    LET names == Unique([p \in 1..Len(df_long.rows) |-> df_long.rows[p].variable])
        rowsOf(v) == SelectSeq(df_long.rows, LAMBDA e : e.variable = v)
    IN [kind |-> "figure",
        title |-> title,
        showlegend |-> TRUE,
        data |-> [k \in 1..Len(names) |->
                    [name |-> names[k],
                     mode |-> "lines",
                     x |-> [p \in 1..Len(rowsOf(names[k])) |-> rowsOf(names[k])[p].time],
                     y |-> [p \in 1..Len(rowsOf(names[k])) |-> rowsOf(names[k])[p].value],
                     visible |-> "true",
                     showlegend |-> TRUE]]]

\* pio.to_html(fig, full_html=False): a non-empty string embedding the figure.
to_html(fig) == [kind |-> "html", fig |-> fig]

\* fig.to_json(): a non-empty string holding the figure.
to_json(fig) == [kind |-> "json", fig |-> fig]

(***************************************************************************)
(* create_time_series_plot                                                 *)
(***************************************************************************)
\* Lines 64-66: every trace whose name is not in visible_by_default becomes
\* legend-only.
hide_traces_inverted(fig) ==
    [fig EXCEPT !.data =
        [k \in 1..Len(fig.data) |->
            IF fig.data[k].name \in visible_by_default
            THEN [fig.data[k] EXCEPT !.visible = "legendonly"]
            ELSE fig.data[k]]]

hide_traces(fig) ==
    [fig EXCEPT !.data =
        [k \in 1..Len(fig.data) |->
            IF fig.data[k].name \notin visible_by_default
            THEN [fig.data[k] EXCEPT !.visible = "legendonly"]
            ELSE fig.data[k]]]

\* Lines 35-36.
value_vars_keep_ignored(df) ==
    SelectSeq(df.columns, LAMBDA col : col # "time")

value_vars_of(df) ==
    SelectSeq(df.columns, LAMBDA col : col # "time" /\ col \notin COLUMNS_TO_IGNORE)

TsLocals(ret, value_vars, df_long) ==
    [kind |-> "call", ret |-> ret, value_vars |-> value_vars, df_long |-> df_long]

\* The body of the try block, lines 26-69: the return value (Raise for an
\* exception leaving the block) and the locals value_vars and df_long.
time_series_try(content, filename) ==
    LET df == read_csv(content)
    IN IF IsRaise(df) THEN TsLocals(Raise, Unset, Unset)
       ELSE IF "time" \notin Range(df.columns) THEN TsLocals(None, Unset, Unset)
       ELSE LET value_vars == value_vars_of(df)
            IN IF value_vars = <<>> THEN TsLocals(None, value_vars, Unset)
               ELSE LET df_long == melt(df, value_vars)
                    IN IF IsRaise(df_long) THEN TsLocals(Raise, value_vars, Unset)
                       ELSE TsLocals(to_html(hide_traces(px_line(df_long, <<filename, " - Time Series">>))),
                                     value_vars, df_long)

\* A variant without the column validation of lines 30-32 and without the
\* except clause of lines 71-73.
time_series_unguarded(content, filename) ==
    LET df == read_csv(content)
    IN IF IsRaise(df) THEN TsLocals(Raise, Unset, Unset)
       ELSE LET value_vars == value_vars_of(df)
            IN IF value_vars = <<>> THEN TsLocals(None, value_vars, Unset)
               ELSE LET df_long == melt(df, value_vars)
                    IN IF IsRaise(df_long) THEN TsLocals(Raise, value_vars, Unset)
                       ELSE TsLocals(to_html(hide_traces(px_line(df_long, <<filename, " - Time Series">>))),
                                     value_vars, df_long)

\* Lines 21-73: the try block, with `except Exception` turning any exception
\* into a None return.
time_series_call(content, filename) ==
    LET t == time_series_try(content, filename)
    IN IF IsRaise(t.ret) THEN [t EXCEPT !.ret = None] ELSE t

create_time_series_plot(content, filename) ==
    time_series_call(content, filename).ret

(***************************************************************************)
(* create_parametric_plot                                                  *)
(***************************************************************************)
\* px.scatter(df, x='profit_share', y='utilization_rate') followed by
\* fig.add_scatter(..., mode='lines', name='trend', showlegend=False) and
\* update_layout(showlegend=False); px raises ValueError for a column the
\* frame does not have.
px_scatter_with_trend(df, title) ==
    IF ~({"profit_share", "utilization_rate"} \subseteq Range(df.columns))
    THEN Raise
    ELSE LET xs == [r \in 1..df.nrows |-> Cell(df, r, "profit_share")]
             ys == [r \in 1..df.nrows |-> Cell(df, r, "utilization_rate")]
         IN [kind |-> "figure",
             title |-> title,
             showlegend |-> FALSE,
             data |-> <<[name |-> "", mode |-> "markers", x |-> xs, y |-> ys,
                         visible |-> "true", showlegend |-> FALSE],
                        [name |-> "trend", mode |-> "lines", x |-> xs, y |-> ys,
                         visible |-> "true", showlegend |-> FALSE]>>]

\* Line 84.
has_parametric_columns(df) ==
    ~("profit_share" \notin Range(df.columns)
        \/ "utilization_rate" \notin Range(df.columns))

\* The body of the try block, lines 80-106.
parametric_try(content, filename) ==
    LET df == read_csv(content)
    IN IF IsRaise(df) THEN Raise
       ELSE IF ~has_parametric_columns(df) THEN None
       ELSE LET fig == px_scatter_with_trend(df, <<filename, " - Parametric Plot">>)
            IN IF IsRaise(fig) THEN Raise ELSE to_html(fig)

\* Lines 75-110.
create_parametric_plot(content, filename) ==
    LET r == parametric_try(content, filename)
    IN IF IsRaise(r) THEN None ELSE r

(***************************************************************************)
(* The transforms applied to one file.                                     *)
(***************************************************************************)
InputName == "run1.csv"

NoCall == [kind |-> "nocall"]

ServerIdle ==
    /\ dirExists = FALSE
    /\ files = [f \in FileNames |-> Missing]
    /\ pc = "idle"
    /\ request = None
    /\ response = None
    /\ io = <<>>
    /\ calls = <<>>

InitTransform ==
    /\ ServerIdle
    /\ csv \in Tables \cup {Unreadable, Missing}
    /\ ts = NoCall
    /\ param = NoCall

TimeSeries ==
    /\ ts = NoCall
    /\ ts' = time_series_call(csv, InputName)
    /\ UNCHANGED <<csv, param, serverVars>>

Parametric ==
    /\ param = NoCall
    /\ param' = create_parametric_plot(csv, InputName)
    /\ UNCHANGED <<csv, ts, serverVars>>

NextTransform == TimeSeries \/ Parametric

SpecTransform == InitTransform /\ [][NextTransform]_vars

(***************************************************************************)
(* The file system under CSV_FOLDER.                                       *)
(***************************************************************************)
\* os.path.exists(os.path.join(CSV_FOLDER, filename))
os_path_exists(filename) == dirExists /\ files[filename].kind # "missing"

\* The names os.listdir(CSV_FOLDER) returns, in some order.
Present == {f \in FileNames : files[f].kind # "missing"}

Listings ==
    {l \in [1..Cardinality(Present) -> Present] :
        \A j, k \in 1..Cardinality(Present) : l[j] = l[k] => j = k}

\* sorted(names)
sorted(names) == SelectSeq(NameOrder, LAMBDA f : f \in names)

(***************************************************************************)
(* create_comparison_plot                                                  *)
(***************************************************************************)
\* Line 141, i counting from 0 as enumerate does.
trace_color_clamped(i) ==
    colors[IF i < Len(colors) THEN i + 1 ELSE Len(colors)]

trace_color(i) == colors[(i % Len(colors)) + 1]

\* Line 137.
has_comparison_columns_any(df) ==
    ~("profit_share" \notin Range(df.columns)
        /\ "utilization_rate" \notin Range(df.columns))

has_comparison_columns(df) ==
    ~("profit_share" \notin Range(df.columns)
        \/ "utilization_rate" \notin Range(df.columns))

\* go.Scatter(x=df['profit_share'], y=df['utilization_rate'], ...), lines
\* 144-151; indexing a column the frame does not have raises KeyError.
go_scatter(df, filename, color) ==
    IF ~({"profit_share", "utilization_rate"} \subseteq Range(df.columns))
    THEN Raise
    ELSE [kind |-> "trace",
          name |-> filename,
          mode |-> "lines+markers",
          x |-> [r \in 1..df.nrows |-> Cell(df, r, "profit_share")],
          y |-> [r \in 1..df.nrows |-> Cell(df, r, "utilization_rate")],
          line |-> [color |-> color, width |-> 3],
          marker |-> [color |-> color, size |-> 6]]

\* The state of the loop of lines 126-153: the figure's traces, the counter,
\* the file-system calls made so far, and whether an exception left the loop.
LoopStart == [data |-> <<>>, valid_files_count |-> 0, io |-> <<>>, raised |-> FALSE]

\* One iteration of the loop, lines 127-153, for the i-th entry (from 0).
comparison_step(acc, i, filename) ==
    LET io1 == Append(acc.io, <<"exists", filename>>)
        io2 == Append(io1, <<"read_csv", filename>>)
        df == read_csv(files[filename])
    IN IF ~os_path_exists(filename) THEN [acc EXCEPT !.io = io1]
       ELSE IF IsRaise(df) THEN [acc EXCEPT !.io = io2, !.raised = TRUE]
       ELSE IF ~has_comparison_columns(df) THEN [acc EXCEPT !.io = io2]
       ELSE LET trace == go_scatter(df, filename, trace_color(i))
            IN IF IsRaise(trace) THEN [acc EXCEPT !.io = io2, !.raised = TRUE]
               ELSE [data |-> Append(acc.data, trace),
                     valid_files_count |-> acc.valid_files_count + 1,
                     io |-> io2,
                     raised |-> FALSE]

\* The loop over the first n entries; an exception ends it.
RECURSIVE comparison_loop(_, _)
comparison_loop(selected_files, n) ==
    IF n = 0 THEN LoopStart
    ELSE LET acc == comparison_loop(selected_files, n - 1)
         IN IF acc.raised THEN acc
            ELSE comparison_step(acc, n - 1, selected_files[n])

\* Lines 112-172: the return value and the file-system calls made.  The try
\* block holds the whole loop, so an exception in any iteration ends in the
\* handler of lines 170-172.
comparison_call(selected_files) ==
    LET acc == comparison_loop(selected_files, Len(selected_files))
        fig == [kind |-> "figure",
                title |-> "Parametric Comparison: Profit Share vs Utilization Rate",
                data |-> acc.data]
    IN [ret |-> IF acc.raised THEN None
                ELSE IF acc.valid_files_count = 0 THEN None
                ELSE to_json(fig),
        io |-> acc.io]

create_comparison_plot(selected_files) == comparison_call(selected_files).ret

(***************************************************************************)
(* The route handlers.                                                     *)
(***************************************************************************)
Response(status, body) == [kind |-> "response", status |-> status, body |-> body]

ErrorBody(message) == [kind |-> "error", error |-> message]

Handled(resp, fsCalls, fnCalls) == [response |-> resp, io |-> fsCalls, calls |-> fnCalls]

\* A variant that builds the plot before it looks at the length of the list.
compare_files_late_check(selected_files) ==
    LET c == comparison_call(selected_files)
    IN IF Len(selected_files) < 2
       THEN Handled(Response(400, ErrorBody("Please select at least 2 files")),
                    c.io, <<"create_comparison_plot">>)
       ELSE IF Truthy(c.ret)
       THEN Handled(Response(200, [kind |-> "plot", plot_html |-> c.ret]),
                    c.io, <<"create_comparison_plot">>)
       ELSE Handled(Response(400, ErrorBody("Could not create comparison plot")),
                    c.io, <<"create_comparison_plot">>)

\* compare_files, lines 206-219, on the `files` list of the request body.
compare_files(selected_files) ==
    IF Len(selected_files) < 2
    THEN Handled(Response(400, ErrorBody("Please select at least 2 files")), <<>>, <<>>)
    ELSE LET c == comparison_call(selected_files)
         IN IF Truthy(c.ret)
            THEN Handled(Response(200, [kind |-> "plot", plot_html |-> c.ret]),
                         c.io, <<"create_comparison_plot">>)
            ELSE Handled(Response(400, ErrorBody("Could not create comparison plot")),
                         c.io, <<"create_comparison_plot">>)

\* The state of the loop of lines 183-194.
IndexStart ==
    [time_series_plots |-> <<>>, parametric_plots |-> <<>>, filenames |-> <<>>,
     io |-> <<>>, calls |-> <<>>]

\* A variant that lists a file only when both of its charts were produced.
index_step_both(acc, filename) ==
    IF ~endswith_csv(filename) THEN acc
    ELSE LET time_series_html == create_time_series_plot(files[filename], filename)
             parametric_html == create_parametric_plot(files[filename], filename)
             io2 == acc.io \o <<<<"read_csv", filename>>, <<"read_csv", filename>>>>
             calls2 == acc.calls \o <<"create_time_series_plot", "create_parametric_plot">>
         IN IF Truthy(time_series_html) /\ Truthy(parametric_html)
            THEN [time_series_plots |-> Append(acc.time_series_plots, time_series_html),
                  parametric_plots |-> Append(acc.parametric_plots, parametric_html),
                  filenames |-> Append(acc.filenames, filename),
                  io |-> io2,
                  calls |-> calls2]
            ELSE [acc EXCEPT !.io = io2, !.calls = calls2]

\* One iteration of the loop, lines 184-194.
index_step(acc, filename) ==
    IF ~endswith_csv(filename) THEN acc
    ELSE LET time_series_html == create_time_series_plot(files[filename], filename)
             parametric_html == create_parametric_plot(files[filename], filename)
             io2 == acc.io \o <<<<"read_csv", filename>>, <<"read_csv", filename>>>>
             calls2 == acc.calls \o <<"create_time_series_plot", "create_parametric_plot">>
         IN IF Truthy(time_series_html) \/ Truthy(parametric_html)
            THEN [time_series_plots |-> Append(acc.time_series_plots, time_series_html),
                  parametric_plots |-> Append(acc.parametric_plots, parametric_html),
                  filenames |-> Append(acc.filenames, filename),
                  io |-> io2,
                  calls |-> calls2]
            ELSE [acc EXCEPT !.io = io2, !.calls = calls2]

RECURSIVE index_loop(_, _)
index_loop(listing, n) ==
    IF n = 0 THEN IndexStart
    ELSE index_step(index_loop(listing, n - 1), listing[n])

\* get_available_csv_files, lines 14-19.
get_available_csv_files ==
    IF dirExists THEN sorted({f \in Present : endswith_csv(f)}) ELSE <<>>

\* index, lines 175-203; listing is what os.listdir returns at line 183.
index(listing) ==
    LET acc == IF dirExists THEN index_loop(listing, Len(listing)) ELSE IndexStart
        page == [kind |-> "page",
                 time_series_plots |-> acc.time_series_plots,
                 parametric_plots |-> acc.parametric_plots,
                 filenames |-> acc.filenames,
                 csv_files |-> get_available_csv_files,
                 plot_count |-> Len(acc.filenames)]
    IN Handled(Response(200, page),
               IF dirExists
               THEN <<<<"exists", "csvs">>, <<"listdir", "csvs">>>> \o acc.io
                      \o <<<<"exists", "csvs">>, <<"listdir", "csvs">>>>
               ELSE <<<<"exists", "csvs">>, <<"exists", "csvs">>>>,
               acc.calls \o <<"get_available_csv_files">>)

(***************************************************************************)
(* The server: the folder changes between requests, requests are answered  *)
(* one at a time.                                                          *)
(***************************************************************************)
BothCharts ==
    [kind |-> "csv",
     columns |-> <<"time", "profit_share", "utilization_rate", "X_phase">>,
     nrows |-> 2, time |-> <<1, 2>>]

TimeSeriesOnly ==
    [kind |-> "csv", columns |-> <<"time", "profit_share", "wage">>,
     nrows |-> 1, time |-> <<1>>]

ParametricOnly ==
    [kind |-> "csv", columns |-> <<"profit_share", "utilization_rate">>,
     nrows |-> 1, time |-> <<>>]

NoChart ==
    [kind |-> "csv", columns |-> <<"time", "X_phase">>, nrows |-> 1, time |-> <<1>>]

\* What the model writes into a file of the folder: any of these into a .csv
\* file, a table with every column into the other file.
Contents == {Unreadable, BothCharts, TimeSeriesOnly, ParametricOnly, NoChart}

ContentsOf(f) == IF endswith_csv(f) THEN Contents ELSE {BothCharts}

Selections == UNION {[1..n -> FileNames] : n \in 0..MaxSel}

Init ==
    /\ ServerIdle
    /\ csv = Missing
    /\ ts = NoCall
    /\ param = NoCall

MakeDir ==
    /\ pc = "idle"
    /\ ~dirExists
    /\ dirExists' = TRUE
    /\ UNCHANGED <<files, pc, request, response, io, calls, transformVars>>

PutFile(f, content) ==
    /\ pc = "idle"
    /\ dirExists
    /\ files' = [files EXCEPT ![f] = content]
    /\ UNCHANGED <<dirExists, pc, request, response, io, calls, transformVars>>

RemoveFile(f) ==
    /\ pc = "idle"
    /\ files[f].kind # "missing"
    /\ files' = [files EXCEPT ![f] = Missing]
    /\ UNCHANGED <<dirExists, pc, request, response, io, calls, transformVars>>

Answer(req, h) ==
    /\ pc' = "responded"
    /\ request' = req
    /\ response' = h.response
    /\ io' = h.io
    /\ calls' = h.calls
    /\ UNCHANGED <<dirExists, files, transformVars>>

Compare(selected_files) ==
    /\ pc = "idle"
    /\ Answer([kind |-> "compare", files |-> selected_files],
              compare_files(selected_files))

Index(listing) ==
    /\ pc = "idle"
    /\ Answer([kind |-> "index"], index(listing))

Done ==
    /\ pc = "responded"
    /\ pc' = "idle"
    /\ request' = None
    /\ response' = None
    /\ io' = <<>>
    /\ calls' = <<>>
    /\ UNCHANGED <<dirExists, files, transformVars>>

Next ==
    \/ MakeDir
    \/ \E f \in FileNames : \E content \in ContentsOf(f) : PutFile(f, content)
    \/ \E f \in FileNames : RemoveFile(f)
    \/ \E selected_files \in Selections : Compare(selected_files)
    \/ \E listing \in Listings : Index(listing)
    \/ Done

Spec == Init /\ [][Next]_vars

(***************************************************************************)
(* Properties of the routes (checked under Spec).                          *)
(***************************************************************************)
Compared == pc = "responded" /\ request.kind = "compare"

Indexed == pc = "responded" /\ request.kind = "index"

\* The file exists on disk and is a table with both comparison columns.
IsValidFile(f) ==
    /\ dirExists
    /\ files[f].kind = "csv"
    /\ "profit_share" \in Range(files[f].columns)
    /\ "utilization_rate" \in Range(files[f].columns)

ValidNames(sel) == SelectSeq(sel, IsValidFile)

ValidPositions(sel) ==
    SelectSeq([i \in 1..Len(sel) |-> i], LAMBDA i : IsValidFile(sel[i]))

PlotData == response.body.plot_html.fig.data

PlotNames == [k \in 1..Len(PlotData) |-> PlotData[k].name]

Palette == <<"#1f77b4", "#ff7f0e", "#2ca02c", "#d62728", "#9467bd">>

\* C1 as stated: no route answers with a propagated exception, and in a
\* comparison every valid file of the list contributes its trace to the
\* returned chart whatever happens to the other files of the list (a file
\* whose load raises is skipped).
C1_AsStated ==
    /\ pc = "responded" => response.status # 500
    /\ (Compared /\ Len(request.files) >= 2 /\ ValidNames(request.files) # <<>>) =>
          /\ response.status = 200
          /\ PlotNames = ValidNames(request.files)

\* C2 as stated: /compare answers 400 with an error message iff the list has
\* fewer than 2 entries or no listed file both exists and has the two
\* columns; otherwise it answers 200 with the serialized chart.
C2_AsStated ==
    Compared =>
        /\ response.status = 400 <=>
              (Len(request.files) < 2 \/ ValidNames(request.files) = <<>>)
        /\ response.status = 400 => response.body.kind = "error"
        /\ response.status # 400 =>
              (response.status = 200 /\ response.body.kind = "plot")

\* C3: a /compare request with fewer than 2 files is answered 400 without any
\* file-system call (no existence check, no CSV read) and without a call of
\* create_comparison_plot.
C3_RejectedBeforeIO ==
    (Compared /\ Len(request.files) < 2) =>
        /\ response.status = 400
        /\ response.body.kind = "error"
        /\ io = <<>>
        /\ calls = <<>>

C3_Witness ==
    /\ Compared
    /\ Len(request.files) = 1
    /\ IsValidFile(request.files[1])
    /\ response.status = 400
    /\ io = <<>>

\* C4 as stated, by the number N of traces (valid files): up to 5 traces have
\* pairwise distinct colors, the k-th and the (k+5)-th trace share a color,
\* and no two traces closer than 5 apart share one.
C4_AsStated ==
    (Compared /\ response.status = 200) =>
        /\ Len(PlotData) <= 5 =>
              \A j, k \in 1..Len(PlotData) :
                  PlotData[j].line.color = PlotData[k].line.color => j = k
        /\ \A k \in 1..Len(PlotData) :
              k + 5 <= Len(PlotData) =>
                  PlotData[k].line.color = PlotData[k + 5].line.color
        /\ \A j, k \in 1..Len(PlotData) :
              (j < k /\ k - j < 5) =>
                  PlotData[j].line.color # PlotData[k].line.color

\* C4 amended: the color of a trace is the palette color of its file's
\* position in the selection list, modulo 5 (skipped files use up a
\* position).  So a list of at most 5 entries gives pairwise distinct colors,
\* and when every listed file is valid the k-th and the (k+5)-th trace share
\* a color and no two traces closer than 5 apart do.
C4_ColorByPosition ==
    (Compared /\ response.status = 200) =>
        LET pos == ValidPositions(request.files)
        IN /\ Len(PlotData) = Len(pos)
           /\ \A k \in 1..Len(PlotData) :
                 /\ PlotData[k].line.color = Palette[((pos[k] - 1) % 5) + 1]
                 /\ PlotData[k].marker.color = PlotData[k].line.color
           /\ Len(request.files) <= 5 =>
                 \A j, k \in 1..Len(PlotData) :
                     PlotData[j].line.color = PlotData[k].line.color => j = k
           /\ Len(pos) = Len(request.files) =>
                 \A j, k \in 1..Len(PlotData) :
                     /\ k = j + 5 => PlotData[j].line.color = PlotData[k].line.color
                     /\ (j < k /\ k - j < 5) =>
                           PlotData[j].line.color # PlotData[k].line.color

C4_Witness ==
    /\ Compared
    /\ response.status = 200
    /\ Len(request.files) = 6
    /\ Len(PlotData) = 6
    /\ PlotData[1].line.color = PlotData[6].line.color
    /\ PlotData[1].line.color # PlotData[5].line.color

\* C5: for a list of at least 2 entries, a returned chart holds exactly one
\* trace per listed file that exists and has both columns, in selection
\* order, and none for any other file; files that are missing on disk or
\* lack a column are skipped, and the answer is a success as soon as one
\* listed file is valid.
C5_TracesOfValidFiles ==
    (Compared /\ Len(request.files) >= 2) =>
        /\ response.status = 200 =>
              /\ response.body.kind = "plot"
              /\ PlotNames = ValidNames(request.files)
        /\ ((\A i \in 1..Len(request.files) :
                 \/ IsValidFile(request.files[i])
                 \/ ~dirExists
                 \/ files[request.files[i]].kind = "missing"
                 \/ (files[request.files[i]].kind = "csv"
                       /\ ~({"profit_share", "utilization_rate"}
                             \subseteq Range(files[request.files[i]].columns))))
             /\ ValidNames(request.files) # <<>>)
            => response.status = 200

C5_Witness ==
    /\ Compared
    /\ response.status = 200
    /\ Len(request.files) = 3
    /\ Len(PlotData) = 1
    /\ IsValidFile(request.files[1])
    /\ files[request.files[2]].kind = "missing"
    /\ files[request.files[3]] = TimeSeriesOnly

\* The table gives a time-series chart / a parametric chart.
HasTimeSeries(c) ==
    /\ c.kind = "csv"
    /\ "time" \in Range(c.columns)
    /\ "value" \notin Range(c.columns)
    /\ Range(c.columns) \ {"time", "X_phase"} # {}

HasParametric(c) ==
    /\ c.kind = "csv"
    /\ {"profit_share", "utilization_rate"} \subseteq Range(c.columns)

\* C10: after the dashboard route, the three lists have the same length,
\* entry i of each belongs to file filenames[i], plot_count is that length; a
\* discovered .csv file is listed (once) iff at least one of its charts was
\* produced, with None for the chart it lacks the columns of; with the folder
\* empty or absent the count is zero and the lists are empty, without error.
C10_IndexLists ==
    Indexed =>
        LET page == response.body
            n == Len(page.filenames)
        IN /\ response.status = 200
           /\ Len(page.time_series_plots) = n
           /\ Len(page.parametric_plots) = n
           /\ page.plot_count = n
           /\ \A i \in 1..n :
                 LET f == page.filenames[i]
                     t == page.time_series_plots[i]
                     q == page.parametric_plots[i]
                 IN /\ IF HasTimeSeries(files[f])
                       THEN t.kind = "html" /\ t.fig.title[1] = f
                       ELSE t.kind = "None"
                    /\ IF HasParametric(files[f])
                       THEN q.kind = "html" /\ q.fig.title[1] = f
                       ELSE q.kind = "None"
                    /\ \A j \in 1..n : page.filenames[j] = f => j = i
           /\ \A f \in FileNames :
                 f \in Range(page.filenames) <=>
                     /\ dirExists
                     /\ endswith_csv(f)
                     /\ HasTimeSeries(files[f]) \/ HasParametric(files[f])
           /\ (~dirExists \/ Present = {}) =>
                 /\ page.plot_count = 0
                 /\ page.filenames = <<>>
                 /\ page.time_series_plots = <<>>
                 /\ page.parametric_plots = <<>>
                 /\ page.csv_files = <<>>

C10_Witness ==
    /\ Indexed
    /\ response.body.plot_count = 2
    /\ \E i, j \in 1..2 :
          /\ response.body.time_series_plots[i].kind = "None"
          /\ response.body.parametric_plots[i].kind = "html"
          /\ response.body.time_series_plots[j].kind = "html"
          /\ response.body.parametric_plots[j].kind = "None"
    /\ files["notes.txt"].kind = "csv"

(***************************************************************************)
(* Properties of the transforms (checked under SpecTransform).             *)
(***************************************************************************)
IsChart(v) == v.kind = "html"

TraceNames(fig) == {fig.data[k].name : k \in 1..Len(fig.data)}

C7_RequiredColumns ==
    /\ (ts.kind = "call" /\ csv.kind = "csv" /\ "time" \notin Range(csv.columns))
          => IsNone(ts.ret)
    /\ (param.kind # "nocall" /\ csv.kind = "csv"
          /\ ("profit_share" \notin Range(csv.columns)
                \/ "utilization_rate" \notin Range(csv.columns)))
          => IsNone(param)

C7_Witness ==
    /\ ts.kind = "call"
    /\ param.kind # "nocall"
    /\ csv.kind = "csv"
    /\ csv.columns = <<"profit_share", "wage">>
    /\ IsNone(ts.ret)
    /\ IsNone(param)

PairsUnique(rows) ==
    \A p, q \in 1..Len(rows) :
        (rows[p].time = rows[q].time /\ rows[p].variable = rows[q].variable) => p = q

====
